---- MODULE Spec2Model ----
(***************************************************************************)
(* Model of the Cortex dashboard stream client (src/src/pages/Dashboard.tsx)*)
(*                                                                         *)
(* The Dashboard component is modelled as a state machine whose variables   *)
(* are the component's useState cells and useRef cells, plus the browser    *)
(* objects the component creates (WebSocket objects, window timers).        *)
(*                                                                         *)
(* Scheduling.  The browser runs one callback at a time.  A callback that   *)
(* changes connectionStatus makes React render again; as connectionStatus   *)
(* is a dependency of the lifecycle effect, React then runs the cleanup of  *)
(* the previous effect run and the effect body again.  The variable         *)
(* renderedStatus is the connectionStatus value of the last committed       *)
(* render (the value the effect closure sees); the component is "at rest"   *)
(* when renderedStatus = connectionStatus.  State updates are applied to    *)
(* connectionStatus in the order they are queued, which is what React's     *)
(* update queue computes for the next render.                               *)
(***************************************************************************)
EXTENDS Integers, Sequences, FiniteSets, TLC

\* ------------------------------------------------------------------ bounds
MaxSockets == 2      \* WebSocket objects the model lets the client create
MaxTimers == 2       \* retry timers the model lets be pending at once
MaxEventId == 3      \* frames that get past JSON.parse and normalization
MaxLogId == 455      \* the same, in the long single-stream specification
MaxStreamId == 3     \* the same, in the specification of the message stream
MaxPulseId == 3      \* the same, in the timed specification of the pulse
MaxTicks == 7        \* clock ticks the timed specification lets pass
MaxNeurons == 2      \* neurons of a snapshot in the normalizer specification

\* ------------------------------------------------------ program constants
PollDelayMs == 60000
PulseMs == 4000
LogCapacity == 300

Null == "null"
NoHandle == 0
NoTimer == 0

Statuses == {"connecting", "open", "polling", "closed", "error"}

ThrowMsg == "connect threw"
WsErrorMsg == "WebSocket error (see browser console for details)"
ParseMsg == "Failed to parse message"

NodeKeys == {"n1", "n2"}

\* ------------------------------------------------------------------ state
VARIABLES
  phase,             \* "init" (constructed), "mounted", "torn" (unmounted)
  connectionStatus,  \* useState: newest queued value
  renderedStatus,    \* connectionStatus of the last committed render
  cancelled,         \* the `cancelled` flag of the latest effect closure
  lastError,
  snapshot,          \* the neuron table; present = FALSE is null
  events,            \* the event log
  shutdownState,
  isInitialLoading,
  heartbeatAnimIds,  \* pulse map: key -> counter, 0 = key absent
  pulseTimers,       \* pending pulse-expiry timers, in scheduling order
  pulseHigh,         \* history: key -> highest counter value assigned so far
  clock,             \* milliseconds since construction (timed specification)
  wsRef,             \* stored connection handle, NoHandle = null
  readyState,        \* handle -> transport state of each WebSocket object
  created,           \* number of WebSocket objects constructed so far
  nextEventIdRef,
  pollingTimerRef,   \* stored timer id, NoTimer = null
  timers,            \* pending retry timers of the window
  lastOp,            \* history: the callback that ran last
  norm               \* the normalizer under test (normalizer specification)

dashboardVars ==
  <<phase, connectionStatus, renderedStatus, cancelled, lastError,
    snapshot, events, shutdownState, isInitialLoading,
    heartbeatAnimIds, pulseTimers, pulseHigh, clock, wsRef, readyState, created,
    nextEventIdRef, pollingTimerRef, timers, lastOp>>

vars == <<dashboardVars, norm>>

\* The component's state as one record, so that handlers compose in sequence.
\* capped is set when a handler would exceed a bound of the model; attempt
\* records how the last connect attempt of the running handler ended.
Cur ==
  [phase |-> phase, connectionStatus |-> connectionStatus,
   renderedStatus |-> renderedStatus, cancelled |-> cancelled,
   lastError |-> lastError, snapshot |-> snapshot, events |-> events,
   shutdownState |-> shutdownState, isInitialLoading |-> isInitialLoading,
   heartbeatAnimIds |-> heartbeatAnimIds, pulseTimers |-> pulseTimers,
   pulseHigh |-> pulseHigh,
   clock |-> clock, wsRef |-> wsRef, readyState |-> readyState, created |-> created,
   nextEventIdRef |-> nextEventIdRef, pollingTimerRef |-> pollingTimerRef,
   timers |-> timers, capped |-> FALSE, attempt |-> "none"]

Commit(n, op) ==
  /\ ~n.capped
  /\ phase' = n.phase
  /\ connectionStatus' = n.connectionStatus
  /\ renderedStatus' = n.renderedStatus
  /\ cancelled' = n.cancelled
  /\ lastError' = n.lastError
  /\ snapshot' = n.snapshot
  /\ events' = n.events
  /\ shutdownState' = n.shutdownState
  /\ isInitialLoading' = n.isInitialLoading
  /\ heartbeatAnimIds' = n.heartbeatAnimIds
  /\ pulseTimers' = n.pulseTimers
  /\ pulseHigh' = n.pulseHigh
  /\ clock' = n.clock
  /\ wsRef' = n.wsRef
  /\ readyState' = n.readyState
  /\ created' = n.created
  /\ nextEventIdRef' = n.nextEventIdRef
  /\ pollingTimerRef' = n.pollingTimerRef
  /\ timers' = n.timers
  /\ lastOp' = op
  /\ norm' = norm

NoSnapshot == [present |-> FALSE, neurons |-> <<>>]

NoShutdown == [seenShutdownNotice |-> FALSE, lastReason |-> Null, lastSeenAt |-> Null]

\* History record: the callback, the handle it was created for, its outcome
\* or event type, the connectionStatus it started from and the frame it got.
OpF(name, h, arg, pre, frame) ==
  [op |-> name, h |-> h, arg |-> arg, pre |-> pre, frame |-> frame]

NoFrame ==
  [json |-> FALSE, kind |-> "none", hasSnapshot |-> FALSE, neurons |-> <<>>,
   hasEvent |-> FALSE, type |-> "none", neuron_id |-> "none", reason |-> "none",
   models |-> <<>>]

Op(name, h, arg, pre) == OpF(name, h, arg, pre, NoFrame)

\* ------------------------------------------------------- useState setters
\* A state update of an unmounted component is dropped by React.
setConnectionStatus(s, v) ==
  IF s.phase = "torn" THEN s ELSE [s EXCEPT !.connectionStatus = v]

setLastError(s, v) ==
  IF s.phase = "torn" THEN s ELSE [s EXCEPT !.lastError = v]

setSnapshot(s, v) ==
  IF s.phase = "torn" THEN s ELSE [s EXCEPT !.snapshot = v]

setEvents(s, v) ==
  IF s.phase = "torn" THEN s ELSE [s EXCEPT !.events = v]

setShutdownState(s, v) ==
  IF s.phase = "torn" THEN s ELSE [s EXCEPT !.shutdownState = v]

setIsInitialLoading(s, v) ==
  IF s.phase = "torn" THEN s ELSE [s EXCEPT !.isInitialLoading = v]

setHeartbeatAnimIds(s, v) ==
  IF s.phase = "torn" THEN s ELSE [s EXCEPT !.heartbeatAnimIds = v]

\* ------------------------------------------------------ polling (reconnect)
clearPollingTimer(s) ==
  IF s.pollingTimerRef # NoTimer
  THEN [s EXCEPT !.timers = {t \in @ : t.id # s.pollingTimerRef},
                 !.pollingTimerRef = NoTimer]
  ELSE s

\* window.setTimeout hands out an id that no pending timer has.
FreeTimerIds(s) == (1..MaxTimers) \ {t.id : t \in s.timers}

setTimeoutPoll(s) ==
  IF FreeTimerIds(s) = {}
  THEN [s EXCEPT !.capped = TRUE]
  ELSE LET id == CHOOSE i \in FreeTimerIds(s) : \A j \in FreeTimerIds(s) : i <= j
       IN [s EXCEPT !.timers = @ \cup {[id |-> id, delay |-> PollDelayMs]},
                    !.pollingTimerRef = id]

\* Faulty variant: the retry is scheduled without entering state polling.
scheduleReconnectPoll_KeepStatus(s) == setTimeoutPoll(clearPollingTimer(s))

\* Faulty variant: the previously scheduled timer is not cancelled.
scheduleReconnectPoll_NoClear(s) ==
  setTimeoutPoll(setConnectionStatus(s, "polling"))

scheduleReconnectPoll(s) ==
  setTimeoutPoll(setConnectionStatus(clearPollingTimer(s), "polling"))

\* Faulty variant: the timer forces state connecting whatever the state is.
pollTimerCallback_Always(s) ==
  setConnectionStatus([s EXCEPT !.pollingTimerRef = NoTimer], "connecting")

\* The callback of the retry timer.
pollTimerCallback(s) ==
  LET s1 == [s EXCEPT !.pollingTimerRef = NoTimer]
  IN setConnectionStatus(s1,
       IF s1.connectionStatus \in {"polling", "error", "closed"}
       THEN "connecting" ELSE s1.connectionStatus)

\* ------------------------------------------------------ WebSocket lifecycle
IsClosedTransport(s, h) == s.readyState[h] \in {"failed", "closed"}

\* Faulty variant: the catch branch records the error but schedules no retry.
connect_NoRetry(s, throws) ==
  IF s.cancelled THEN s
  ELSE IF s.wsRef # NoHandle /\ ~IsClosedTransport(s, s.wsRef) THEN s
  ELSE
    LET s1 == IF s.renderedStatus = "polling" THEN setLastError(s, Null) ELSE s
        s2 == setConnectionStatus(s1, "connecting")
    IN IF throws
       THEN setLastError(setConnectionStatus(
              [s2 EXCEPT !.attempt = "threw"], "error"), ThrowMsg)
       ELSE IF s2.created >= MaxSockets
       THEN [s2 EXCEPT !.capped = TRUE]
       ELSE [s2 EXCEPT !.attempt = "created",
                       !.created = @ + 1,
                       !.readyState[s2.created + 1] = "connecting",
                       !.wsRef = s2.created + 1]

\* Faulty variant: the new connection object is not stored in wsRef.
connect_NoStore(s, throws) ==
  IF s.cancelled THEN s
  ELSE IF s.wsRef # NoHandle /\ ~IsClosedTransport(s, s.wsRef) THEN s
  ELSE
    LET s1 == IF s.renderedStatus = "polling" THEN setLastError(s, Null) ELSE s
        s2 == setConnectionStatus(s1, "connecting")
    IN IF throws
       THEN scheduleReconnectPoll(
              setLastError(setConnectionStatus(
                [s2 EXCEPT !.attempt = "threw"], "error"), ThrowMsg))
       ELSE IF s2.created >= MaxSockets
       THEN [s2 EXCEPT !.capped = TRUE]
       ELSE [s2 EXCEPT !.attempt = "created",
                       !.created = @ + 1,
                       !.readyState[s2.created + 1] = "connecting"]

\* connect(): throws says whether `new WebSocket(endpoint)` throws.
connect(s, throws) ==
  IF s.cancelled THEN s
  ELSE IF s.wsRef # NoHandle /\ ~IsClosedTransport(s, s.wsRef) THEN s
  ELSE
    LET s1 == IF s.renderedStatus = "polling" THEN setLastError(s, Null) ELSE s
        s2 == setConnectionStatus(s1, "connecting")
    IN IF throws
       THEN scheduleReconnectPoll(
              setLastError(setConnectionStatus(
                [s2 EXCEPT !.attempt = "threw"], "error"), ThrowMsg))
       ELSE IF s2.created >= MaxSockets
       THEN [s2 EXCEPT !.capped = TRUE]
       ELSE [s2 EXCEPT !.attempt = "created",
                       !.created = @ + 1,
                       !.readyState[s2.created + 1] = "connecting",
                       !.wsRef = s2.created + 1]

\* Faulty variant: the effect connects whatever the connection state is.
lifecycleEffect_AnyStatus(s, throws) ==
  LET s0 == [s EXCEPT !.cancelled = FALSE]
  IN IF s0.wsRef = NoHandle
     THEN connect(setIsInitialLoading(s0, TRUE), throws)
     ELSE s0

\* One run of the lifecycle effect body, for the committed render.
lifecycleEffect(s, throws) ==
  LET s0 == [s EXCEPT !.cancelled = FALSE]
  IN IF s0.renderedStatus = "connecting" /\ s0.wsRef = NoHandle
     THEN connect(setIsInitialLoading(s0, TRUE), throws)
     ELSE s0

\* Faulty variant: the cleanup leaves the retry timer pending.
effectCleanup_KeepTimer(s) == [s EXCEPT !.cancelled = TRUE]

\* The cleanup the lifecycle effect returns.
effectCleanup(s) == clearPollingTimer([s EXCEPT !.cancelled = TRUE])

\* Faulty variant: the open callback does not clear last-error.
onopen_KeepError(s, h) ==
  IF s.wsRef # h THEN s
  ELSE
    LET s1 == clearPollingTimer(s)
        s2 == setConnectionStatus(s1, "open")
        s4 == setIsInitialLoading(s2, TRUE)
        s5 == setSnapshot(s4, NoSnapshot)
        s6 == setEvents(s5, <<>>)
    IN setShutdownState(s6, NoShutdown)

\* Faulty variant: the open callback restarts the log ids with the log.
onopen_ResetsIds(s, h) ==
  IF s.wsRef # h THEN s
  ELSE
    LET s1 == clearPollingTimer(s)
        s2 == setConnectionStatus(s1, "open")
        s3 == setLastError(s2, Null)
        s4 == setIsInitialLoading(s3, TRUE)
        s5 == setSnapshot(s4, NoSnapshot)
        s6 == setEvents(s5, <<>>)
    IN [setShutdownState(s6, NoShutdown) EXCEPT !.nextEventIdRef = 1]

\* ws.onopen
onopen(s, h) ==
  IF s.wsRef # h THEN s
  ELSE
    LET s1 == clearPollingTimer(s)
        s2 == setConnectionStatus(s1, "open")
        s3 == setLastError(s2, Null)
        s4 == setIsInitialLoading(s3, TRUE)
        s5 == setSnapshot(s4, NoSnapshot)
        s6 == setEvents(s5, <<>>)
    IN setShutdownState(s6, NoShutdown)

\* Faulty variant: the error callback starts the retry cycle itself.
onerror_Schedules(s, h) ==
  IF s.wsRef # h THEN s
  ELSE scheduleReconnectPoll(
         setLastError(
           setIsInitialLoading(setConnectionStatus(s, "error"), FALSE),
           WsErrorMsg))

\* ws.onerror
onerror(s, h) ==
  IF s.wsRef # h THEN s
  ELSE setLastError(
         setIsInitialLoading(setConnectionStatus(s, "error"), FALSE),
         WsErrorMsg)

\* Faulty variant: the close callback marks the state closed and schedules nothing.
onclose_NoSchedule(s, h) ==
  IF s.wsRef # h THEN s
  ELSE
    LET s1 == setConnectionStatus(s,
                IF s.connectionStatus = "polling" THEN "polling" ELSE "closed")
    IN setIsInitialLoading(s1, FALSE)

\* Faulty variant: the close callback does nothing when the state is polling.
onclose_SkipWhenPolling(s, h) ==
  IF s.wsRef # h \/ s.connectionStatus = "polling" THEN s
  ELSE scheduleReconnectPoll(
         setIsInitialLoading(setConnectionStatus(s, "closed"), FALSE))

\* Faulty variant: the close callback also resets the shutdown state.
onclose_ResetShutdown(s, h) ==
  IF s.wsRef # h THEN s
  ELSE
    LET s1 == setConnectionStatus(s,
                IF s.connectionStatus = "polling" THEN "polling" ELSE "closed")
        s2 == setIsInitialLoading(s1, FALSE)
    IN scheduleReconnectPoll(setShutdownState(s2, NoShutdown))

\* ws.onclose
\* Faulty variant: the close callback forgets the socket.
onclose_ClearsHandle(s, h) ==
  IF s.wsRef # h THEN s
  ELSE
    LET s1 == setConnectionStatus(s,
                IF s.connectionStatus = "polling" THEN "polling" ELSE "closed")
        s2 == setIsInitialLoading(s1, FALSE)
    IN scheduleReconnectPoll([s2 EXCEPT !.wsRef = NoHandle])

onclose(s, h) ==
  IF s.wsRef # h THEN s
  ELSE
    LET s1 == setConnectionStatus(s,
                IF s.connectionStatus = "polling" THEN "polling" ELSE "closed")
        s2 == setIsInitialLoading(s1, FALSE)
    IN scheduleReconnectPoll(s2)

\* ------------------------------------------------------------ wire frames
\* A frame is a text frame of the stream.  json says whether JSON.parse
\* accepts it; Undef stands for a field the JSON document does not carry.
Undef == "<undefined>"

EventTypes == {"neuron_registered", "neuron_removed", "neuron_heartbeat",
               "provisioning_sent", "provisioning_response",
               "model_state_changed", "cortex_shutdown_notice"}

Frame(json, kind, hasSnapshot, neurons, hasEvent, type, nid, reason) ==
  [json |-> json, kind |-> kind, hasSnapshot |-> hasSnapshot,
   neurons |-> neurons, hasEvent |-> hasEvent, type |-> type,
   neuron_id |-> nid, reason |-> reason, models |-> <<>>]

WireNeuron(structured, nid, label) ==
  [structured |-> structured, node_id |-> nid, label |-> label]

SnapshotFrame(ns) == Frame(TRUE, "snapshot", TRUE, ns, FALSE, Undef, Undef, Undef)
EventFrame(type, nid, reason) == Frame(TRUE, "event", FALSE, <<>>, TRUE, type, nid, reason)

Frames ==
  { Frame(FALSE, Undef, FALSE, <<>>, FALSE, Undef, Undef, Undef),
    Frame(TRUE, "snapshot", FALSE, <<>>, FALSE, Undef, Undef, Undef),
    Frame(TRUE, "other", FALSE, <<>>, FALSE, Undef, Undef, Undef),
    SnapshotFrame(<<WireNeuron(TRUE, "n1", "n2"), WireNeuron(FALSE, Null, Null)>>),
    EventFrame("neuron_heartbeat", "n2", Undef),
    EventFrame("neuron_removed", "n1", Undef),
    EventFrame("cortex_shutdown_notice", Undef, "maintenance"),
    EventFrame("cortex_shutdown_notice", Undef, Undef) }

\* A model id on the wire: a bare string, a one-field wrapper around a
\* string, or any other JSON value.
ModelIdWire(shape, v) == [shape |-> shape, v |-> v]

ModelWire(id, cmdKind, status) ==
  [model_id |-> id, last_cmd_kind |-> cmdKind, last_response |-> Undef,
   effective_status |-> status]

ModelStateFrame(nid, ms) ==
  [EventFrame("model_state_changed", nid, Undef) EXCEPT !.models = ms]

\* String(x)
String(x) == IF x = Undef THEN "undefined" ELSE x

\* x ?? d
Coalesce(x, d) == IF x = Undef \/ x = Null THEN d ELSE x

\* JSON.stringify of a model id that is neither a string nor a wrapper.
JsonStringify(id) == IF id.v = "m1" THEN "{\"name\":\"m1\"}" ELSE "{}"

normalizeModelId(id) ==
  IF id.shape = "string" THEN id
  ELSE IF id.shape = "wrapped" THEN ModelIdWire("string", id.v)
  ELSE ModelIdWire("string", JsonStringify(id))

\* The map over e.models / n.models.
normalizeModels(modelsWire) ==
  [i \in 1..Len(modelsWire) |->
     [model_id |-> normalizeModelId(modelsWire[i].model_id),
      last_cmd_kind |-> Coalesce(modelsWire[i].last_cmd_kind, "unknown"),
      last_response |-> Coalesce(modelsWire[i].last_response, Null),
      effective_status |-> Coalesce(modelsWire[i].effective_status, "unknown")]]

SyntheticLabel == <<"Neuron #1", "Neuron #2", "Neuron #3", "Neuron #4">>

normalizeSnapshot(neuronsWire) ==
  [idx \in 1..Len(neuronsWire) |->
     LET n == neuronsWire[idx]
     IN IF n.structured
        THEN [descriptor |-> [node_id |-> n.node_id, label |-> n.label],
              last_heartbeat_at |-> Null, health |-> "unknown",
              offline |-> FALSE, models |-> <<>>]
        ELSE [descriptor |->
                [node_id |-> Coalesce(n.node_id, Null),
                 label |-> Coalesce(n.label,
                             Coalesce(n.node_id, SyntheticLabel[idx]))],
              last_heartbeat_at |-> Null, health |-> "unknown",
              offline |-> FALSE, models |-> <<>>]]

\* Faulty variant: a snapshot frame without a body counts as an empty one.
normalizeThrows_Never(wire) == FALSE

\* Faulty variant: an event of unknown type is rejected.
normalizeThrows_Unknown(wire) ==
  \/ wire.kind = "snapshot" /\ ~wire.hasSnapshot
  \/ wire.kind # "snapshot" /\ wire.hasEvent /\ wire.type # Undef
       /\ wire.type \notin EventTypes

\* normalizeMessage throws when it reads snapshot.neurons of a missing body.
normalizeThrows(wire) == wire.kind = "snapshot" /\ ~wire.hasSnapshot

NormEvent(type, nid, reason) == Frame(TRUE, "event", FALSE, <<>>, TRUE, type, nid, reason)

normalizeMessage(wire) ==
  IF wire.kind = "snapshot"
  THEN Frame(TRUE, "snapshot", TRUE, normalizeSnapshot(wire.neurons),
             FALSE, Undef, Undef, Undef)
  ELSE IF ~wire.hasEvent \/ wire.type = Undef THEN wire
  ELSE IF wire.type \in {"neuron_removed", "neuron_heartbeat",
                         "provisioning_sent", "provisioning_response"}
  THEN NormEvent(wire.type, String(wire.neuron_id), Undef)
  ELSE IF wire.type = "model_state_changed"
  THEN [NormEvent(wire.type, String(wire.neuron_id), Undef)
          EXCEPT !.models = normalizeModels(wire.models)]
  ELSE IF wire.type = "neuron_registered"
  THEN NormEvent(wire.type, Undef, Undef)
  ELSE IF wire.type = "cortex_shutdown_notice"
  THEN NormEvent(wire.type, Undef, Coalesce(wire.reason, Null))
  ELSE wire

\* Faulty variant: the log is never trimmed.
SliceLast_NoTrim(seq, n) == seq

\* Faulty variant: the newest entries are dropped instead of the oldest.
SliceLast_KeepFirst(seq, n) ==
  IF Len(seq) <= n THEN seq ELSE SubSeq(seq, 1, n)

\* [...prev, item].slice(-300)
SliceLast(seq, n) ==
  IF Len(seq) <= n THEN seq ELSE SubSeq(seq, Len(seq) - n + 1, Len(seq))

\* Faulty variant: only the node_id is matched.
heartbeatPatch_IdOnly(prev, neuronId) ==
  IF ~prev.present THEN prev
  ELSE [prev EXCEPT !.neurons =
          [i \in 1..Len(prev.neurons) |->
             IF prev.neurons[i].descriptor.node_id = neuronId
             THEN [prev.neurons[i] EXCEPT !.last_heartbeat_at = "now"]
             ELSE prev.neurons[i]]]

\* Faulty variant: a heartbeat received before any snapshot creates the table.
heartbeatPatch_CreatesTable(prev, neuronId) ==
  IF ~prev.present THEN [prev EXCEPT !.present = TRUE]
  ELSE [prev EXCEPT !.neurons =
          [i \in 1..Len(prev.neurons) |->
             IF prev.neurons[i].descriptor.node_id = neuronId
                \/ prev.neurons[i].descriptor.label = neuronId
             THEN [prev.neurons[i] EXCEPT !.last_heartbeat_at = "now"]
             ELSE prev.neurons[i]]]

\* The heartbeat patch of the neuron table.
heartbeatPatch(prev, neuronId) ==
  IF ~prev.present THEN prev
  ELSE [prev EXCEPT !.neurons =
          [i \in 1..Len(prev.neurons) |->
             IF prev.neurons[i].descriptor.node_id = neuronId
                \/ prev.neurons[i].descriptor.label = neuronId
             THEN [prev.neurons[i] EXCEPT !.last_heartbeat_at = "now"]
             ELSE prev.neurons[i]]]

\* Faulty variant: the counter is bumped but no expiry is armed.
pulseBump_NoExpiry(s, neuronKey) ==
  IF s.phase = "torn" \/ neuronKey \notin DOMAIN s.heartbeatAnimIds THEN s
  ELSE [s EXCEPT !.heartbeatAnimIds[neuronKey] = @ + 1]

\* Faulty variant: the counter of a lit key is not bumped.
pulseBump_NoIncrement(s, neuronKey) ==
  IF s.phase = "torn" \/ neuronKey \notin DOMAIN s.heartbeatAnimIds THEN s
  ELSE LET nextId == IF s.heartbeatAnimIds[neuronKey] = 0 THEN 1
                     ELSE s.heartbeatAnimIds[neuronKey]
       IN [s EXCEPT !.heartbeatAnimIds[neuronKey] = nextId,
                    !.pulseHigh[neuronKey] = IF nextId > @ THEN nextId ELSE @,
                    !.pulseTimers = Append(@, [key |-> neuronKey, id |-> nextId,
                                               delay |-> PulseMs,
                                               due |-> s.clock + PulseMs])]

\* The pulse tracker: bump the counter of the key and arm its expiry.  The
\* window runs timers of equal delay in the order they were scheduled, so
\* the pending expiries form a queue.
pulseBump(s, neuronKey) ==
  IF s.phase = "torn" \/ neuronKey \notin DOMAIN s.heartbeatAnimIds THEN s
  ELSE LET nextId == s.heartbeatAnimIds[neuronKey] + 1
       IN [s EXCEPT !.heartbeatAnimIds[neuronKey] = nextId,
                    !.pulseHigh[neuronKey] = IF nextId > @ THEN nextId ELSE @,
                    !.pulseTimers = Append(@, [key |-> neuronKey, id |-> nextId,
                                               delay |-> PulseMs,
                                               due |-> s.clock + PulseMs])]

\* Faulty variant: the expiry clears the key whatever its counter is.
pulseExpiry_NoGuard(s, t) ==
  setHeartbeatAnimIds(s, [s.heartbeatAnimIds EXCEPT ![t.key] = 0])

\* The callback of a pulse-expiry timer.
pulseExpiry(s, t) ==
  IF s.heartbeatAnimIds[t.key] # t.id THEN s
  ELSE setHeartbeatAnimIds(s, [s.heartbeatAnimIds EXCEPT ![t.key] = 0])

\* SelectSeq without a lambda: the neurons whose node_id is not nid.
RECURSIVE WithoutNode(_, _)
WithoutNode(ns, nid) ==
  IF ns = <<>> THEN <<>>
  ELSE IF Head(ns).descriptor.node_id = nid THEN WithoutNode(Tail(ns), nid)
  ELSE <<Head(ns)>> \o WithoutNode(Tail(ns), nid)

\* Faulty variant: neuron_removed prunes the neuron table.
dispatchEvent_RemovePrunes(s, e) ==
  IF e.type = "neuron_heartbeat"
  THEN pulseBump(setSnapshot(s, heartbeatPatch(s.snapshot, e.neuron_id)),
                 e.neuron_id)
  ELSE IF e.type = "cortex_shutdown_notice"
  THEN scheduleReconnectPoll(
         setShutdownState(s, [seenShutdownNotice |-> TRUE,
                              lastReason |-> Coalesce(e.reason, Null),
                              lastSeenAt |-> "now"]))
  ELSE IF e.type = "neuron_removed" /\ s.snapshot.present
  THEN setSnapshot(s, [s.snapshot EXCEPT
                         !.neurons = WithoutNode(@, e.neuron_id)])
  ELSE s

\* Dispatch of a normalized event (the part of ws.onmessage after the log).
dispatchEvent(s, e) ==
  IF e.type = "neuron_heartbeat"
  THEN pulseBump(setSnapshot(s, heartbeatPatch(s.snapshot, e.neuron_id)),
                 e.neuron_id)
  ELSE IF e.type = "cortex_shutdown_notice"
  THEN scheduleReconnectPoll(
         setShutdownState(s, [seenShutdownNotice |-> TRUE,
                              lastReason |-> Coalesce(e.reason, Null),
                              lastSeenAt |-> "now"]))
  ELSE s

\* Faulty variant: the newest entry is put at the front of the log.
appendLog_Prepend(s, item) ==
  setEvents(s, SliceLast(<<item>> \o s.events, LogCapacity))

\* setEvents((prev) => [...prev, item].slice(-300))
appendLog(s, item) ==
  setEvents(s, SliceLast(Append(s.events, item), LogCapacity))

\* Faulty variant: a snapshot is merged into the previous table.
applySnapshot_Merge(s, data) ==
  setIsInitialLoading(
    setSnapshot(s, [present |-> TRUE,
                    neurons |-> s.snapshot.neurons \o data.neurons]), FALSE)

\* The snapshot branch of ws.onmessage.
applySnapshot(s, data) ==
  setIsInitialLoading(
    setSnapshot(s, [present |-> TRUE, neurons |-> data.neurons]), FALSE)

\* Faulty variant: messages are processed in state open only.
onmessage_OpenOnly(s, h, f) ==
  IF s.wsRef # h \/ s.connectionStatus # "open" THEN s
  ELSE IF ~f.json \/ normalizeThrows(f) THEN setLastError(s, ParseMsg)
  ELSE
    LET data == normalizeMessage(f)
        id == s.nextEventIdRef
        s1 == [s EXCEPT !.nextEventIdRef = @ + 1]
    IN IF data.kind # "snapshot" /\ ~data.hasEvent
       THEN setLastError(s1, ParseMsg)
       ELSE
         LET item == [id |-> id, receivedAt |-> "now", kind |-> data.kind,
                      eventType |-> IF data.kind = "snapshot" THEN "snapshot"
                                    ELSE data.type,
                      payload |-> data]
             s2 == appendLog(s1, item)
         IN IF data.kind = "snapshot"
            THEN applySnapshot(s2, data)
            ELSE dispatchEvent(s2, data)

\* ws.onmessage
onmessage(s, h, f) ==
  IF s.wsRef # h THEN s
  ELSE IF ~f.json \/ normalizeThrows(f) THEN setLastError(s, ParseMsg)
  ELSE
    LET data == normalizeMessage(f)
        id == s.nextEventIdRef
        s1 == [s EXCEPT !.nextEventIdRef = @ + 1]
    IN IF data.kind # "snapshot" /\ ~data.hasEvent
       THEN setLastError(s1, ParseMsg)
       ELSE
         LET item == [id |-> id, receivedAt |-> "now", kind |-> data.kind,
                      eventType |-> IF data.kind = "snapshot" THEN "snapshot"
                                    ELSE data.type,
                      payload |-> data]
             s2 == appendLog(s1, item)
         IN IF data.kind = "snapshot"
            THEN applySnapshot(s2, data)
            ELSE dispatchEvent(s2, data)

\* ------------------------------------------------------------ JSON values
\* The normalizer as a function of JSON values.  A value is a record of its
\* type tag t, its text s (strings, numbers, booleans), its members o (a set
\* of <<key, value>> pairs, for objects) and its items a (for arrays).
\* normalizeMessage above is the same function restricted to the fields the
\* handlers read.
JV(t, s, o, a) == [t |-> t, s |-> s, o |-> o, a |-> a]

JUndefined == JV("undefined", "", {}, <<>>)
JNull == JV("null", "", {}, <<>>)
JStr(x) == JV("string", x, {}, <<>>)
JBool(b) == JV("boolean", IF b THEN "true" ELSE "false", {}, <<>>)
JObj(pairs) == JV("object", "", pairs, <<>>)
JArr(items) == JV("array", "", {}, items)

\* The result of a call that throws.
Thrown == JV("throw", "TypeError", {}, <<>>)

\* typeof v === "object"
TypeofObject(v) == v.t \in {"object", "array", "null"}

\* Boolean(v)
Truthy(v) ==
  ~ \/ v.t \in {"undefined", "null"}
    \/ v.t = "string" /\ v.s = ""
    \/ v.t = "boolean" /\ v.s = "false"
    \/ v.t = "number" /\ v.s = "0"

Nullish(v) == v.t \in {"undefined", "null"}

\* k in v
In(k, v) == v.t = "object" /\ \E p \in v.o : p[1] = k

\* v.k, for a v that is not null or undefined
Get(v, k) == IF In(k, v) THEN (CHOOSE p \in v.o : p[1] = k)[2] ELSE JUndefined

\* v ?? d
JCoalesce(v, d) == IF Nullish(v) THEN d ELSE v

\* n && n.k
AndGet(n, k) == IF Truthy(n) THEN Get(n, k) ELSE n

\* String(v)
JString(v) ==
  IF v.t = "string" THEN v
  ELSE IF v.t \in {"undefined", "null"} THEN JStr(v.t)
  ELSE IF v.t \in {"number", "boolean"} THEN JStr(v.s)
  ELSE IF v.t = "object" THEN JStr("[object Object]")
  ELSE JV("string", "join", {<<"of", v>>}, <<>>)

\* JSON.stringify(v): undefined for undefined, otherwise the text of v.
JStringify(v) ==
  IF v.t = "undefined" THEN JUndefined
  ELSE IF v.t = "null" THEN JStr("null")
  ELSE IF v.t \in {"number", "boolean"} THEN JStr(v.s)
  ELSE JV("string", "json", {<<"of", v>>}, <<>>)

\* Faulty variant: every id that is not a string is rendered as text, and a
\* string is quoted.
normalizeModelIdJson_Quote(id) == JStringify(id)

normalizeModelIdJson(id) ==
  IF id.t = "string" THEN id
  ELSE IF Truthy(id) /\ TypeofObject(id) /\ In("0", id)
  THEN IF Get(id, "0").t = "string" THEN Get(id, "0") ELSE JStringify(id)
  ELSE JStringify(id)

\* typeof mid === "string" ? mid : normalizeModelId(mid)
CommandModelId(mid) == IF mid.t = "string" THEN mid ELSE normalizeModelIdJson(mid)

UpsertCommand(config) ==
  JObj({<<"kind", JStr("upsert_model_config")>>, <<"config", config>>})

ModelCommand(kind, modelId) ==
  JObj({<<"kind", JStr(kind)>>, <<"model_id", modelId>>})

\* Faulty variant: the legacy keys are not recognized.
normalizeProvisioningCommand_ModernOnly(wire) ==
  IF ~Truthy(wire) \/ ~TypeofObject(wire) THEN UpsertCommand(wire)
  ELSE IF In("kind", wire) /\ Get(wire, "kind") = JStr("upsert_model_config")
  THEN UpsertCommand(Get(wire, "config"))
  ELSE IF In("kind", wire)
          /\ Get(wire, "kind") \in {JStr("load_model"), JStr("unload_model")}
  THEN ModelCommand(Get(wire, "kind").s, CommandModelId(Get(wire, "model_id")))
  ELSE UpsertCommand(wire)

normalizeProvisioningCommand(wire) ==
  IF ~Truthy(wire) \/ ~TypeofObject(wire) THEN UpsertCommand(wire)
  ELSE IF In("kind", wire) /\ Get(wire, "kind") = JStr("upsert_model_config")
  THEN UpsertCommand(Get(wire, "config"))
  ELSE IF In("kind", wire)
          /\ Get(wire, "kind") \in {JStr("load_model"), JStr("unload_model")}
  THEN ModelCommand(Get(wire, "kind").s, CommandModelId(Get(wire, "model_id")))
  ELSE IF In("UpsertModelConfig", wire)
  THEN UpsertCommand(Get(wire, "UpsertModelConfig"))
  ELSE IF In("LoadModel", wire)
  THEN ModelCommand("load_model", CommandModelId(Get(wire, "LoadModel")))
  ELSE IF In("UnloadModel", wire)
  THEN ModelCommand("unload_model", CommandModelId(Get(wire, "UnloadModel")))
  ELSE UpsertCommand(wire)

\* The map over a model list; reading m.model_id of a null entry throws.
ModelsThrow(models) ==
  models.t = "array" /\ \E i \in 1..Len(models.a) : Nullish(models.a[i])

normalizeModelsJson(models) ==
  IF models.t # "array" THEN JArr(<<>>)
  ELSE JArr([i \in 1..Len(models.a) |->
         LET m == models.a[i]
         IN JObj({<<"model_id", normalizeModelIdJson(Get(m, "model_id"))>>,
                  <<"last_cmd_kind",
                    JCoalesce(Get(m, "last_cmd_kind"), JStr("unknown"))>>,
                  <<"last_response", JCoalesce(Get(m, "last_response"), JNull)>>,
                  <<"effective_status",
                    JCoalesce(Get(m, "effective_status"), JStr("unknown"))>>})])

IsStructured(n) == Truthy(n) /\ TypeofObject(n) /\ In("descriptor", n)

NeuronsWire(snap) ==
  IF Get(snap, "neurons").t = "array" THEN Get(snap, "neurons").a ELSE <<>>

SnapshotThrows(snap) ==
  \/ Nullish(snap)
  \/ \E i \in 1..Len(NeuronsWire(snap)) :
       /\ IsStructured(NeuronsWire(snap)[i])
       /\ ModelsThrow(Get(NeuronsWire(snap)[i], "models"))

NormalNeuron(descriptor, lastHeartbeatAt, health, offline, models) ==
  JObj({<<"descriptor", descriptor>>, <<"last_heartbeat_at", lastHeartbeatAt>>,
        <<"health", health>>, <<"offline", offline>>, <<"models", models>>})

\* Faulty variant: a legacy entry without a label is always given the
\* synthetic label.
normalizeSnapshotJson_NoIdLabel(snap) ==
  JObj({<<"neurons",
    JArr([idx \in 1..Len(NeuronsWire(snap)) |->
      LET n == NeuronsWire(snap)[idx]
      IN IF IsStructured(n)
         THEN NormalNeuron(Get(n, "descriptor"),
                JCoalesce(Get(n, "last_heartbeat_at"), JNull),
                JCoalesce(Get(n, "health"), JStr("unknown")),
                JBool(Truthy(Get(n, "offline"))),
                normalizeModelsJson(Get(n, "models")))
         ELSE NormalNeuron(
                JObj({<<"node_id", JCoalesce(AndGet(n, "node_id"), JNull)>>,
                      <<"label", JCoalesce(AndGet(n, "label"),
                                   JStr(SyntheticLabel[idx]))>>,
                      <<"metadata", JCoalesce(AndGet(n, "metadata"), JObj({}))>>}),
                JNull, JStr("unknown"), JBool(FALSE), JArr(<<>>))])>>})

normalizeSnapshotJson(snap) ==
  JObj({<<"neurons",
    JArr([idx \in 1..Len(NeuronsWire(snap)) |->
      LET n == NeuronsWire(snap)[idx]
      IN IF IsStructured(n)
         THEN NormalNeuron(Get(n, "descriptor"),
                JCoalesce(Get(n, "last_heartbeat_at"), JNull),
                JCoalesce(Get(n, "health"), JStr("unknown")),
                JBool(Truthy(Get(n, "offline"))),
                normalizeModelsJson(Get(n, "models")))
         ELSE NormalNeuron(
                JObj({<<"node_id", JCoalesce(AndGet(n, "node_id"), JNull)>>,
                      <<"label", JCoalesce(AndGet(n, "label"),
                                   JCoalesce(AndGet(n, "node_id"),
                                     JStr(SyntheticLabel[idx])))>>,
                      <<"metadata", JCoalesce(AndGet(n, "metadata"), JObj({}))>>}),
                JNull, JStr("unknown"), JBool(FALSE), JArr(<<>>))])>>})

NormalEvent(type, fields) ==
  JObj({<<"kind", JStr("event")>>,
        <<"event", JObj({<<"type", JStr(type)>>} \cup fields)>>})

normalizeMessageJson(wire) ==
  IF Nullish(wire) THEN Thrown
  ELSE IF Get(wire, "kind") = JStr("snapshot")
  THEN IF SnapshotThrows(Get(wire, "snapshot")) THEN Thrown
       ELSE JObj({<<"kind", JStr("snapshot")>>,
                  <<"snapshot", normalizeSnapshotJson(Get(wire, "snapshot"))>>})
  ELSE
    LET e == Get(wire, "event")
    IN IF ~Truthy(e) \/ ~TypeofObject(e) \/ Get(e, "type").t # "string" THEN wire
       ELSE IF Get(e, "type").s = "neuron_registered"
       THEN NormalEvent("neuron_registered", {<<"neuron", Get(e, "neuron")>>})
       ELSE IF Get(e, "type").s = "neuron_removed"
       THEN NormalEvent("neuron_removed",
              {<<"neuron_id", JString(Get(e, "neuron_id"))>>})
       ELSE IF Get(e, "type").s = "neuron_heartbeat"
       THEN NormalEvent("neuron_heartbeat",
              {<<"neuron_id", JString(Get(e, "neuron_id"))>>,
               <<"metrics", JCoalesce(Get(e, "metrics"), JObj({}))>>})
       ELSE IF Get(e, "type").s = "provisioning_sent"
       THEN NormalEvent("provisioning_sent",
              {<<"neuron_id", JString(Get(e, "neuron_id"))>>,
               <<"cmd", normalizeProvisioningCommand(Get(e, "cmd"))>>})
       ELSE IF Get(e, "type").s = "provisioning_response"
       THEN NormalEvent("provisioning_response",
              {<<"neuron_id", JString(Get(e, "neuron_id"))>>,
               <<"response", Get(e, "response")>>})
       ELSE IF Get(e, "type").s = "model_state_changed"
       THEN IF ModelsThrow(Get(e, "models")) THEN Thrown
            ELSE NormalEvent("model_state_changed",
                   {<<"neuron_id", JString(Get(e, "neuron_id"))>>,
                    <<"models", normalizeModelsJson(Get(e, "models"))>>})
       ELSE IF Get(e, "type").s = "cortex_shutdown_notice"
       THEN NormalEvent("cortex_shutdown_notice",
              {<<"reason", JCoalesce(Get(e, "reason"), JNull)>>})
       ELSE wire

\* The normalizer under test: the wire message, its normalization and the
\* normalization of that; stage counts the applications done.
NoNorm ==
  [stage |-> 0, wire |-> JUndefined, once |-> JUndefined, twice |-> JUndefined]

\* ------------------------------------------------------------------ init
InitDashboard ==
  /\ phase = "init"
  /\ connectionStatus = "connecting"
  /\ renderedStatus = "connecting"
  /\ cancelled = FALSE
  /\ lastError = Null
  /\ snapshot = NoSnapshot
  /\ events = <<>>
  /\ shutdownState = NoShutdown
  /\ isInitialLoading = TRUE
  /\ heartbeatAnimIds = [k \in NodeKeys |-> 0]
  /\ pulseTimers = <<>>
  /\ pulseHigh = [k \in NodeKeys |-> 0]
  /\ clock = 0
  /\ wsRef = NoHandle
  /\ readyState = [h \in 1..MaxSockets |-> "none"]
  /\ created = 0
  /\ nextEventIdRef = 1
  /\ pollingTimerRef = NoTimer
  /\ timers = {}
  /\ lastOp = Op("init", NoHandle, Null, "connecting")

Init == InitDashboard /\ norm = NoNorm

\* ---------------------------------------------------------------- actions
AtRest == renderedStatus = connectionStatus

\* First commit: the effect runs; under React StrictMode the cleanup and the
\* effect body run once more, for the same render.
Mount ==
  /\ phase = "init"
  /\ \E strict \in BOOLEAN, t1 \in BOOLEAN, t2 \in BOOLEAN :
       LET s0 == [Cur EXCEPT !.phase = "mounted"]
           s1 == lifecycleEffect(s0, t1)
           s2 == IF strict THEN lifecycleEffect(effectCleanup(s1), t2) ELSE s1
       IN Commit(s2, Op("mount", s2.wsRef, s2.attempt, connectionStatus))

\* Re-render after connectionStatus changed: cleanup of the previous effect
\* run, then the effect body for the new render.
RunEffect ==
  /\ phase = "mounted"
  /\ ~AtRest
  /\ \E t \in BOOLEAN :
       LET s1 == effectCleanup(Cur)
           s2 == [s1 EXCEPT !.renderedStatus = s1.connectionStatus]
           s3 == lifecycleEffect(s2, t)
       IN Commit(s3, Op("effect", s3.wsRef, s3.attempt, connectionStatus))

\* Unmount: the cleanup runs and later state updates are dropped.
Teardown ==
  /\ phase = "mounted"
  /\ Commit([effectCleanup(Cur) EXCEPT !.phase = "torn"],
            Op("teardown", wsRef, Null, connectionStatus))

WsOpen(h) ==
  /\ readyState[h] = "connecting"
  /\ Commit(onopen([Cur EXCEPT !.readyState[h] = "open"], h),
            Op("onopen", h, Null, connectionStatus))

\* The transport fails: readyState is CLOSED when the error event is
\* dispatched, and the close event follows.
WsError(h) ==
  /\ readyState[h] \in {"connecting", "open"}
  /\ Commit(onerror([Cur EXCEPT !.readyState[h] = "failed"], h),
            Op("onerror", h, Null, connectionStatus))

WsClose(h) ==
  /\ readyState[h] \in {"open", "failed"}
  /\ Commit(onclose([Cur EXCEPT !.readyState[h] = "closed"], h),
            Op("onclose", h, Null, connectionStatus))

\* A frame consumes an event id once it got past JSON.parse and
\* normalizeMessage.
ConsumesId(f) == f.json /\ ~normalizeThrows(f)

WsMessage(h, f) ==
  /\ readyState[h] = "open"
  /\ ConsumesId(f) => nextEventIdRef <= MaxEventId
  /\ Commit(onmessage(Cur, h, f),
            OpF("onmessage", h,
                IF f.json /\ f.hasEvent THEN f.type ELSE f.kind,
                connectionStatus, f))

\* The oldest pending pulse-expiry timer fires (time is left abstract).
PulseExpire ==
  /\ pulseTimers # <<>>
  /\ Commit(pulseExpiry([Cur EXCEPT !.pulseTimers = Tail(@)], Head(pulseTimers)),
            Op("pulse", NoHandle, Head(pulseTimers).key, connectionStatus))

\* A retry timer comes due 60 s after it was armed: a re-render that was
\* pending when it was armed has run its effects by then.
PollTimerFire(t) ==
  /\ t \in timers
  /\ phase = "mounted" => AtRest
  /\ Commit(pollTimerCallback([Cur EXCEPT !.timers = @ \ {t}]),
            Op("timer", NoHandle, Null, connectionStatus))

Handles == 1..MaxSockets

Next ==
  \/ Mount
  \/ RunEffect
  \/ Teardown
  \/ \E h \in Handles : WsOpen(h)
  \/ \E h \in Handles : WsError(h)
  \/ \E h \in Handles : WsClose(h)
  \/ \E h \in Handles, f \in Frames : WsMessage(h, f)
  \/ \E t \in timers : PollTimerFire(t)
  \/ PulseExpire

Spec == Init /\ [][Next]_vars

\* Fairness the scheduling guarantees: React runs a pending re-render and its
\* effects, and the window fires a pending timer.  Nothing obliges the server
\* to send, the transport to fail or the consumer to unmount.
FairSpec ==
  /\ Spec
  /\ WF_vars(RunEffect)
  /\ WF_vars(\E t \in timers : PollTimerFire(t))
  /\ WF_vars(PulseExpire)

\* ------------------------------------------------------------------ claims
LiveHandles == {h \in Handles : readyState[h] \in {"connecting", "open"}}

CloseRan == lastOp.op = "onclose" /\ lastOp.h = wsRef
ConnectThrew == lastOp.op \in {"mount", "effect"} /\ lastOp.arg = "threw"

\* C1: whenever the close callback of the current handle has run, or a
\* connect attempt threw, and the component is not torn down, a new
\* connection object is eventually created (or the component is torn down).
RetryLiveness ==
  \A n \in 0..(MaxSockets - 1) :
    (phase = "mounted" /\ created = n /\ (CloseRan \/ ConnectThrew))
      ~> (created > n \/ phase = "torn")

NoticeOnOpen ==
  /\ lastOp.op = "onmessage"
  /\ lastOp.arg = "cortex_shutdown_notice"
  /\ lastOp.h = wsRef
  /\ lastOp.pre = "open"

OneRetryTimerPending ==
  /\ Cardinality(timers) = 1
  /\ \A t \in timers : t.delay = PollDelayMs /\ t.id = pollingTimerRef

\* C2: after a cortex_shutdown_notice with reason r was processed on the
\* current handle in state open, and the effect re-run it triggers completed,
\* the state is polling, the shutdown state carries r, and exactly one retry
\* timer of 60 seconds is pending.
ShutdownNoticeLeavesRetryPending ==
  [][(phase = "mounted" /\ NoticeOnOpen /\ lastOp'.op = "effect")
       => /\ connectionStatus' = "polling"
          /\ shutdownState'.seenShutdownNotice
          /\ shutdownState'.lastReason = Coalesce(lastOp.frame.reason, Null)
          /\ OneRetryTimerPending']_vars

\* C3: at rest, a mounted component in state polling has a retry timer
\* pending.
PollingHasRetryTimer ==
  (phase = "mounted" /\ AtRest /\ connectionStatus = "polling") => timers # {}

CurrentCloseStep ==
  /\ phase = "mounted"
  /\ lastOp'.op = "onclose"
  /\ lastOp'.h = wsRef
  /\ connectionStatus # "polling"

\* C5 (as stated): the close callback of the current handle, run in a state
\* other than polling, leaves the connection state closed with a retry
\* scheduled.
CloseLeavesClosed ==
  [][CurrentCloseStep => (connectionStatus' = "closed" /\ timers' # {})]_vars

\* C5 (amended): the close callback of the current handle, run in a state
\* other than polling, returns with connection state polling (closed is
\* overwritten inside the callback) and exactly one 60-second retry timer
\* pending.
CloseLeavesPolling ==
  [][CurrentCloseStep
       => (connectionStatus' = "polling" /\ OneRetryTimerPending')]_vars

CloseLeavesPollingWitness ==
  /\ phase = "mounted"
  /\ CloseRan
  /\ lastOp.pre = "open"
  /\ connectionStatus = "polling"
  /\ OneRetryTimerPending

\* C6: the open callback of the current handle sets state open, clears
\* last-error and resets the neuron table, the event log and the shutdown
\* state.
OpenResetsEpoch ==
  [][(phase = "mounted" /\ lastOp'.op = "onopen" /\ lastOp'.h = wsRef)
       => /\ connectionStatus' = "open"
          /\ lastError' = Null
          /\ snapshot' = NoSnapshot
          /\ events' = <<>>
          /\ shutdownState' = NoShutdown]_vars

OpenResetsEpochWitness ==
  /\ phase = "mounted"
  /\ lastOp.op = "onopen"
  /\ lastOp.h = wsRef
  /\ connectionStatus = "open"
  /\ lastError = Null

ThrowStep == lastOp'.op \in {"mount", "effect"} /\ lastOp'.arg = "threw"

ThrowFrame ==
  /\ lastError' = ThrowMsg
  /\ timers' # {}
  /\ snapshot' = snapshot
  /\ events' = events
  /\ wsRef' = wsRef

\* C7 (as stated): a synchronous throw of a connect attempt leaves the
\* connection state error, records the message, schedules a retry and leaves
\* table, log and stored handle unchanged.
ThrowLeavesError ==
  [][ThrowStep => (connectionStatus' = "error" /\ ThrowFrame)]_vars

\* C7 (amended): a synchronous throw of a connect attempt leaves the
\* connection state polling (error is overwritten when the retry is
\* scheduled), records the message, arms exactly one retry timer and leaves
\* table, log and stored handle unchanged.
ThrowLeavesPolling ==
  [][ThrowStep
       => (connectionStatus' = "polling" /\ ThrowFrame /\ OneRetryTimerPending')]_vars

ThrowLeavesPollingWitness ==
  /\ ConnectThrew
  /\ connectionStatus = "polling"
  /\ lastError = ThrowMsg
  /\ wsRef = NoHandle
  /\ OneRetryTimerPending

\* C8: at most one connection object is in transport state connecting or
\* open.
AtMostOneLiveConnection == Cardinality(LiveHandles) <= 1

\* The retry timer fired, the effect re-ran in state connecting, and the
\* connection created at mount is still open.
AtMostOneLiveConnectionWitness ==
  /\ lastOp.op = "effect"
  /\ connectionStatus = "connecting"
  /\ wsRef # NoHandle
  /\ readyState[wsRef] = "open"
  /\ Cardinality(LiveHandles) = 1

AtMostOneRetryTimer == Cardinality(timers) <= 1

\* A close on the current handle re-scheduled the retry while the timer of
\* a shutdown notice was still pending.
RescheduleWitness ==
  /\ CloseRan
  /\ lastOp.pre = "polling"
  /\ renderedStatus = "open"
  /\ shutdownState.seenShutdownNotice
  /\ Cardinality(timers) = 1

\* ------------------------------------------- the long single-stream run
\* One connection that delivers a fixed cycle of frames (two events and one
\* frame of unknown kind), long enough for the log to overflow.
LogStreamFrame(id) ==
  IF id % 3 = 1 THEN EventFrame("neuron_removed", "n1", Undef)
  ELSE IF id % 3 = 2 THEN EventFrame("provisioning_response", "n2", Undef)
  ELSE Frame(TRUE, "other", FALSE, <<>>, FALSE, Undef, Undef, Undef)

LogMessage(h) ==
  /\ readyState[h] = "open"
  /\ nextEventIdRef <= MaxLogId
  /\ Commit(onmessage(Cur, h, LogStreamFrame(nextEventIdRef)),
            OpF("onmessage", h, LogStreamFrame(nextEventIdRef).kind,
                connectionStatus, LogStreamFrame(nextEventIdRef)))

NextLog ==
  \/ Mount
  \/ RunEffect
  \/ \E h \in Handles : WsOpen(h)
  \/ \E h \in Handles : LogMessage(h)

SpecLog == Init /\ [][NextLog]_vars

\* What ws.onmessage logs: a snapshot with a body, or a non-snapshot frame
\* with an event object.
Logged(f) ==
  /\ f.json
  /\ \/ f.kind = "snapshot" /\ f.hasSnapshot
     \/ f.kind # "snapshot" /\ f.hasEvent

CurrentMessageStep ==
  /\ phase = "mounted"
  /\ lastOp'.op = "onmessage"
  /\ lastOp'.h = wsRef

Min(a, b) == IF a <= b THEN a ELSE b

\* C11: the event log holds at most 300 entries.
LogBounded == Len(events) <= LogCapacity

\* The log is full and its oldest entries have been evicted.
LogBoundedWitness ==
  /\ Len(events) = LogCapacity
  /\ events[1].id > 1

IdsIncreasing(seq) == \A i \in 1..(Len(seq) - 1) : seq[i].id < seq[i + 1].id

\* new is old with one entry for frame f added at the back and, when that
\* exceeds the capacity, the oldest entry dropped.
WindowShift(old, new, f, id) ==
  LET k == Len(new)
  IN /\ k = Min(Len(old) + 1, LogCapacity)
     /\ new[k].payload = normalizeMessage(f)
     /\ new[k].id = id
     /\ \A i \in 1..(k - 1) : new[i] = old[i + Len(old) + 1 - k]

\* C12: within a connection epoch every logged message is added at the back
\* of the log, the oldest entry is evicted once there are more than 300, no
\* other step touches the log, and ids increase from front to back; so after
\* N logged messages the log is the last min(N, 300) of them in arrival order.
LogIsLastWindow ==
  [][/\ (CurrentMessageStep /\ Logged(lastOp'.frame))
          => WindowShift(events, events', lastOp'.frame, nextEventIdRef)
     /\ (~(CurrentMessageStep /\ Logged(lastOp'.frame)) /\ lastOp'.op # "onopen")
          => events' = events
     /\ IdsIncreasing(events')]_vars

\* More than 300 messages were logged: the log holds 300 entries, the first
\* four ids are gone, and the newest entry carries the newest id.
LogIsLastWindowWitness ==
  /\ Len(events) = LogCapacity
  /\ events[1].id > 4
  /\ events[LogCapacity].id = nextEventIdRef - 1
  /\ events[2].id = events[1].id + 2

\* ------------------------------------------------- the message stream
\* One connection that delivers any of the frame shapes below, in any order.
StreamFrames ==
  { Frame(FALSE, Undef, FALSE, <<>>, FALSE, Undef, Undef, Undef),
    Frame(TRUE, "snapshot", FALSE, <<>>, FALSE, Undef, Undef, Undef),
    Frame(TRUE, "other", FALSE, <<>>, FALSE, Undef, Undef, Undef),
    Frame(TRUE, "other", FALSE, <<>>, TRUE, "cortex_shutdown_notice", Undef,
          "maintenance"),
    SnapshotFrame(<<WireNeuron(TRUE, "n1", "n2"), WireNeuron(FALSE, "n2", Undef)>>),
    SnapshotFrame(<<WireNeuron(FALSE, Null, Null)>>),
    EventFrame("neuron_heartbeat", "n2", Undef),
    EventFrame("neuron_removed", "n1", Undef),
    EventFrame("neuron_registered", Undef, Undef),
    EventFrame("provisioning_sent", "n1", Undef),
    EventFrame("provisioning_response", "n1", Undef),
    ModelStateFrame("n1", <<ModelWire(ModelIdWire("wrapped", "m1"), Undef, "loaded")>>),
    EventFrame("cortex_shutdown_notice", Undef, "maintenance"),
    EventFrame("custom_type", "n1", Undef) }

StreamMessage(h, f) ==
  /\ readyState[h] = "open"
  /\ ConsumesId(f) => nextEventIdRef <= MaxStreamId
  /\ Commit(onmessage(Cur, h, f),
            OpF("onmessage", h,
                IF f.json /\ f.hasEvent THEN f.type ELSE f.kind,
                connectionStatus, f))

NextStream ==
  \/ Mount
  \/ RunEffect
  \/ \E h \in Handles : WsOpen(h)
  \/ \E h \in Handles, f \in StreamFrames : StreamMessage(h, f)
  \/ \E t \in timers : PollTimerFire(t)
  \/ PulseExpire

SpecStream == Init /\ [][NextStream]_vars

\* The frame of the step, and the shapes the claims speak of.
StepFrame == lastOp'.frame

IsSnapshotFrame(f) == f.json /\ f.kind = "snapshot" /\ f.hasSnapshot
IsEventFrame(f) == f.json /\ f.kind = "event" /\ f.hasEvent
IsEventOfType(f, types) == IsEventFrame(f) /\ f.type \in types

\* The step adds exactly one entry, for frame f, at the back of the log.
AppendedOne(f) ==
  /\ Len(events') = Len(events) + 1
  /\ events'[Len(events')].payload = normalizeMessage(f)
  /\ events'[Len(events')].kind = f.kind
  /\ events'[Len(events')].id = nextEventIdRef
  /\ \A i \in 1..Len(events) : events'[i] = events[i]

\* C13: every snapshot or event message received on the current handle that
\* decodes and normalizes adds exactly one entry carrying the normalized
\* message at the back of the log, leaving the earlier entries in place.
EveryMessageLoggedOnce ==
  [][(CurrentMessageStep /\ (IsSnapshotFrame(StepFrame) \/ IsEventFrame(StepFrame)))
       => AppendedOne(StepFrame)]_vars

\* Three different messages were logged, in the order of their delivery.
EveryMessageLoggedOnceWitness ==
  /\ phase = "mounted"
  /\ lastOp.op = "onmessage"
  /\ Len(events) = 3
  /\ events[3].payload = normalizeMessage(lastOp.frame)
  /\ events[1].kind = "snapshot"
  /\ events[2].eventType = "neuron_heartbeat"
  /\ events[3].eventType = "neuron_removed"

\* C14: after a snapshot message the neuron table is exactly the normalized
\* neurons of that message, in its order, whatever the table was before, and
\* the initial-load flag is false.
SnapshotReplacesTable ==
  [][(CurrentMessageStep /\ IsSnapshotFrame(StepFrame))
       => /\ snapshot'.present
          /\ snapshot'.neurons = normalizeSnapshot(StepFrame.neurons)
          /\ Len(snapshot'.neurons) = Len(StepFrame.neurons)
          /\ \A i \in 1..Len(StepFrame.neurons) :
               /\ snapshot'.neurons[i].descriptor.node_id
                    = Coalesce(StepFrame.neurons[i].node_id, Null)
               /\ snapshot'.neurons[i].last_heartbeat_at = Null
          /\ ~isInitialLoading']_vars

\* Snapshot A, a heartbeat that patched A, then a different snapshot B: the
\* table is B.
SnapshotReplacesTableWitness ==
  /\ phase = "mounted"
  /\ Len(events) = 3
  /\ events[1].kind = "snapshot"
  /\ Len(events[1].payload.neurons) = 2
  /\ events[2].eventType = "neuron_heartbeat"
  /\ events[3].kind = "snapshot"
  /\ Len(events[3].payload.neurons) = 1
  /\ lastOp.op = "onmessage"
  /\ lastOp.frame.kind = "snapshot"
  /\ snapshot.present
  /\ snapshot.neurons = events[3].payload.neurons

\* C15: a model_state_changed event for neuron x replaces the model list of
\* the table neuron matching x by the event's normalized list and leaves the
\* model lists of the other neurons unchanged.
ModelStateChangedReplacesModels ==
  [][(CurrentMessageStep /\ IsEventOfType(StepFrame, {"model_state_changed"})
        /\ snapshot.present)
       => /\ snapshot'.present
          /\ Len(snapshot'.neurons) = Len(snapshot.neurons)
          /\ \A i \in 1..Len(snapshot.neurons) :
               snapshot'.neurons[i].models =
                 IF snapshot.neurons[i].descriptor.node_id
                      = String(StepFrame.neuron_id)
                 THEN normalizeModels(StepFrame.models)
                 ELSE snapshot.neurons[i].models]_vars

Matches(n, x) == n.descriptor.node_id = x \/ n.descriptor.label = x

\* C16: a neuron_heartbeat event for x sets last-heartbeat to the current
\* time on every table neuron whose node_id or label is x and leaves the
\* others as they were; with no match, or no table, the table is unchanged;
\* no error is recorded.
HeartbeatPatchesMatches ==
  [][(CurrentMessageStep /\ IsEventOfType(StepFrame, {"neuron_heartbeat"}))
       => /\ lastError' = lastError
          /\ snapshot'.present = snapshot.present
          /\ Len(snapshot'.neurons) = Len(snapshot.neurons)
          /\ \A i \in 1..Len(snapshot.neurons) :
               snapshot'.neurons[i] =
                 IF Matches(snapshot.neurons[i], String(StepFrame.neuron_id))
                 THEN [snapshot.neurons[i] EXCEPT !.last_heartbeat_at = "now"]
                 ELSE snapshot.neurons[i]]_vars

\* A heartbeat for n2 patched two neurons, one of them matched only by its
\* label.
HeartbeatPatchesMatchesWitness ==
  /\ phase = "mounted"
  /\ lastOp.op = "onmessage"
  /\ lastOp.arg = "neuron_heartbeat"
  /\ lastOp.frame.neuron_id = "n2"
  /\ snapshot.present
  /\ Len(snapshot.neurons) = 2
  /\ snapshot.neurons[1].descriptor.node_id = "n1"
  /\ snapshot.neurons[1].descriptor.label = "n2"
  /\ snapshot.neurons[1].last_heartbeat_at = "now"
  /\ snapshot.neurons[2].descriptor.node_id = "n2"
  /\ snapshot.neurons[2].last_heartbeat_at = "now"

LogOnlyTypes ==
  {"neuron_registered", "neuron_removed", "provisioning_sent",
   "provisioning_response", "cortex_shutdown_notice"}

UnknownKindIsParseFailure ==
  [][(CurrentMessageStep /\ StepFrame.json
        /\ StepFrame.kind \notin {"snapshot", "event"})
       => /\ lastError' = ParseMsg
          /\ events' = events
          /\ snapshot' = snapshot
          /\ connectionStatus' = connectionStatus
          /\ shutdownState' = shutdownState
          /\ timers' = timers]_vars

\* C19: a frame that cannot be decoded, or that fails during normalization,
\* records a last-error message and leaves connection state, neuron table,
\* event log, shutdown state and retry timer as they were.
MalformedFrameChangesNothing ==
  [][(CurrentMessageStep
        /\ (~StepFrame.json \/ (StepFrame.kind = "snapshot" /\ ~StepFrame.hasSnapshot)))
       => /\ lastError' = ParseMsg
          /\ connectionStatus' = connectionStatus
          /\ snapshot' = snapshot
          /\ events' = events
          /\ shutdownState' = shutdownState
          /\ timers' = timers
          /\ pollingTimerRef' = pollingTimerRef]_vars

\* A snapshot frame without a body arrived after a table and log existed.
MalformedFrameChangesNothingWitness ==
  /\ phase = "mounted"
  /\ lastOp.op = "onmessage"
  /\ lastOp.frame.json
  /\ lastOp.frame.kind = "snapshot"
  /\ ~lastOp.frame.hasSnapshot
  /\ lastError = ParseMsg
  /\ snapshot.present
  /\ Len(snapshot.neurons) = 2
  /\ Len(events) = 2

\* C20: an event whose type is a string outside the seven known types is
\* normalized to itself and appended to the log; neuron table, connection
\* state, shutdown state and pulse map are unchanged and no error is recorded.
UnknownEventTypePassesThrough ==
  [][(CurrentMessageStep /\ IsEventFrame(StepFrame)
        /\ StepFrame.type \notin (EventTypes \cup {Undef}))
       => /\ normalizeMessage(StepFrame) = StepFrame
          /\ AppendedOne(StepFrame)
          /\ events'[Len(events')].payload = StepFrame
          /\ snapshot' = snapshot
          /\ connectionStatus' = connectionStatus
          /\ shutdownState' = shutdownState
          /\ heartbeatAnimIds' = heartbeatAnimIds
          /\ lastError' = lastError]_vars

\* An event of an unknown type was logged as it came, with a table present
\* and no error recorded.
UnknownEventTypePassesThroughWitness ==
  /\ phase = "mounted"
  /\ lastOp.op = "onmessage"
  /\ lastOp.frame.type = "custom_type"
  /\ events # <<>>
  /\ events[Len(events)].payload = lastOp.frame
  /\ events[Len(events)].eventType = "custom_type"
  /\ lastError = Null
  /\ snapshot.present

\* ------------------------------------------------------- shutdown state
NoticeStep ==
  /\ lastOp'.op = "onmessage"
  /\ lastOp'.h = wsRef
  /\ lastOp'.frame.json
  /\ lastOp'.frame.hasEvent
  /\ lastOp'.frame.type = "cortex_shutdown_notice"

\* C21: once a shutdown notice has been seen, every step other than the open
\* callback of the current handle keeps seenShutdownNotice true, and only a
\* later shutdown notice changes lastReason (to the reason it carries, while
\* the component is mounted; after unmount the shutdown state is frozen).
ShutdownNoticeSticky ==
  [][(shutdownState.seenShutdownNotice
        /\ ~(lastOp'.op = "onopen" /\ lastOp'.h = wsRef))
       => /\ shutdownState'.seenShutdownNotice
          /\ IF NoticeStep
             THEN phase = "mounted"
                    => shutdownState'.lastReason
                         = Coalesce(lastOp'.frame.reason, Null)
             ELSE shutdownState' = shutdownState
          /\ phase # "mounted" => shutdownState' = shutdownState]_vars

\* After a notice with a reason: the connection closed, the retry timer
\* fired and the effect re-ran, and the shutdown state still carries the
\* notice.
ShutdownNoticeStickyWitness ==
  /\ phase = "mounted"
  /\ shutdownState.seenShutdownNotice
  /\ shutdownState.lastReason = "maintenance"
  /\ lastOp.op = "effect"
  /\ connectionStatus = "connecting"
  /\ lastError = Null
  /\ wsRef # NoHandle
  /\ readyState[wsRef] = "closed"
  /\ timers = {}

\* ------------------------------------------------------- the timed pulse
\* One connection that delivers heartbeats and snapshots while the clock
\* advances in ticks of a quarter of the pulse duration.  A pulse-expiry
\* timer fires when the clock reaches its due time, oldest first; the clock
\* does not pass a due timer.
TickMs == PulseMs \div 4

HeartbeatGapMs == PulseMs \div 2

PulseFrames ==
  { SnapshotFrame(<<WireNeuron(TRUE, "n1", "n2"), WireNeuron(FALSE, "n2", Undef)>>),
    EventFrame("neuron_heartbeat", "n1", Undef),
    EventFrame("neuron_heartbeat", "n2", Undef) }

PulseMessage(h, f) ==
  /\ readyState[h] = "open"
  /\ nextEventIdRef <= MaxPulseId
  /\ clock + PulseMs <= MaxTicks * TickMs
  /\ Commit(onmessage(Cur, h, f),
            OpF("onmessage", h,
                IF f.json /\ f.hasEvent THEN f.type ELSE f.kind,
                connectionStatus, f))

PulseDue ==
  /\ pulseTimers # <<>>
  /\ Head(pulseTimers).due <= clock
  /\ Commit(pulseExpiry([Cur EXCEPT !.pulseTimers = Tail(@)], Head(pulseTimers)),
            Op("pulse", NoHandle, Head(pulseTimers).key, connectionStatus))

Tick ==
  /\ clock < MaxTicks * TickMs
  /\ pulseTimers # <<>> => Head(pulseTimers).due > clock
  /\ Commit([Cur EXCEPT !.clock = @ + TickMs],
            Op("tick", NoHandle, Null, connectionStatus))

NextPulse ==
  \/ Mount
  \/ RunEffect
  \/ \E h \in Handles : WsOpen(h)
  \/ \E h \in Handles, f \in PulseFrames : PulseMessage(h, f)
  \/ PulseDue
  \/ Tick

SpecPulse == Init /\ [][NextPulse]_vars

\* Time passes, a due timer fires and React runs a pending re-render.
FairSpecPulse ==
  /\ SpecPulse
  /\ WF_vars(RunEffect)
  /\ WF_vars(PulseDue)
  /\ WF_vars(Tick)

\* The pulsing indicator of an identity, as the render reads it.
isNeuronBeating(k) == heartbeatAnimIds[k] # 0

\* The pending expiries of identity k, as positions of the queue.
PendingFor(k) == {i \in 1..Len(pulseTimers) : pulseTimers[i].key = k}

\* An identity is lit from each of its heartbeats until 4 seconds after it:
\* it is lit exactly while an expiry scheduled by one of its heartbeats is
\* pending, and a pending expiry was scheduled at most 4 seconds ago.
LitWhileExpiryPending ==
  /\ \A k \in NodeKeys : isNeuronBeating(k) <=> PendingFor(k) # {}
  /\ \A i \in 1..Len(pulseTimers) :
       /\ pulseTimers[i].due - PulseMs <= clock
       /\ clock <= pulseTimers[i].due

\* C22: a pulse-expiry timer fires 4 seconds after the heartbeat that
\* scheduled it; it clears the indicator of its identity when no heartbeat
\* for that identity arrived since, and changes nothing otherwise.  So an
\* identity stays lit from a heartbeat until 4 seconds after the last
\* heartbeat that followed within 4 seconds of its predecessor.
StaleExpiryIsNoOp ==
  [][/\ (phase = "mounted" /\ lastOp'.op = "pulse")
          => LET t == Head(pulseTimers)
             IN /\ clock = t.due
                /\ isNeuronBeating(t.key)
                /\ IF PendingFor(t.key) # {1}
                   THEN heartbeatAnimIds' = heartbeatAnimIds
                   ELSE heartbeatAnimIds' = [heartbeatAnimIds EXCEPT ![t.key] = 0]
     /\ phase = "mounted" => LitWhileExpiryPending']_vars

\* Two heartbeats for n2, 2 seconds apart: the expiry of the first has just
\* fired, 4 seconds after the first heartbeat, and n2 is still lit; the
\* expiry of the second is due in 2 seconds.
StaleExpiryIsNoOpWitness ==
  /\ phase = "mounted"
  /\ lastOp.op = "pulse"
  /\ lastOp.arg = "n2"
  /\ heartbeatAnimIds["n2"] = 2
  /\ Len(pulseTimers) = 1
  /\ pulseTimers[1].key = "n2"
  /\ pulseTimers[1].id = 2
  /\ pulseTimers[1].due = clock + HeartbeatGapMs
  /\ Len(events) = 2

\* C23: a lit identity is eventually cleared: heartbeats stop, and the
\* expiry of the last one fires.
PulseEventuallyCleared ==
  \A k \in NodeKeys : (phase = "mounted" /\ isNeuronBeating(k)) ~> ~isNeuronBeating(k)

\* The expiry of the only heartbeat for n1 fired 4 seconds after it and
\* cleared the indicator.
PulseEventuallyClearedWitness ==
  /\ phase = "mounted"
  /\ lastOp.op = "pulse"
  /\ lastOp.arg = "n1"
  /\ ~isNeuronBeating("n1")
  /\ PendingFor("n1") = {}
  /\ clock >= PulseMs
  /\ \E i \in 1..Len(events) :
       /\ events[i].eventType = "neuron_heartbeat"
       /\ events[i].payload.neuron_id = "n1"
       /\ \A j \in 1..Len(events) :
            (events[j].eventType = "neuron_heartbeat"
               /\ events[j].payload.neuron_id = "n1") => j = i

\* ---------------------------------------------------------------- teardown
\* What the cleanup of the lifecycle effect does to the current state.
CleanupFrame ==
  LET n == effectCleanup(Cur)
  IN /\ n.timers = {}
     /\ n.pollingTimerRef = NoTimer
     /\ n.wsRef = wsRef
     /\ n.readyState = readyState
     /\ n.created = created
     /\ n.connectionStatus = connectionStatus
     /\ n.snapshot = snapshot
     /\ n.events = events
     /\ n.shutdownState = shutdownState

ModelIdInputs ==
  { JStr("gpt-small"),
    JObj({<<"0", JStr("gpt-small")>>}),
    JObj({<<"name", JStr("gpt-small")>>}) }

ConfigInputs == { JObj({<<"name", JStr("gpt-small")>>}), JNull }

ModernCommands ==
  {UpsertCommand(c) : c \in ConfigInputs}
    \cup {ModelCommand(k, id) : k \in {"load_model", "unload_model"},
                                id \in ModelIdInputs}

LegacyCommands ==
  {JObj({<<"UpsertModelConfig", c>>}) : c \in ConfigInputs}
    \cup {JObj({<<k, id>>}) : k \in {"LoadModel", "UnloadModel"},
                              id \in ModelIdInputs}

\* No recognized kind and none of the legacy keys.
OtherCommands ==
  { JObj({<<"kind", JStr("restart")>>}),
    JObj({<<"Restart", JNull>>}),
    JStr("LoadModel"),
    JArr(<<JStr("LoadModel")>>),
    JNull,
    JUndefined }

\* A legacy key next to other members.
MixedCommands ==
  { JObj({<<"kind", JStr("restart")>>, <<"LoadModel", JStr("gpt-small")>>}),
    JObj({<<"LoadModel", JStr("gpt-small")>>, <<"note", JStr("urgent")>>}),
    JObj({<<"UnloadModel", JObj({<<"0", JStr("gpt-small")>>})>>,
          <<"LoadModel", JStr("gpt-small")>>}) }

CommandInputs ==
  ModernCommands \cup LegacyCommands \cup OtherCommands \cup MixedCommands

Descriptor(nid, label) ==
  JObj({<<"node_id", nid>>, <<"label", label>>, <<"metadata", JObj({})>>})

ModelEntry(id) ==
  JObj({<<"model_id", id>>, <<"effective_status", JStr("loaded")>>})

StructuredEntries ==
  { JObj({<<"descriptor", Descriptor(JStr("n1"), JStr("alpha"))>>}),
    JObj({<<"descriptor", Descriptor(JStr("n2"), JNull)>>,
          <<"last_heartbeat_at", JStr("2024-01-01T00:00:00Z")>>,
          <<"health", JStr("healthy")>>,
          <<"offline", JBool(TRUE)>>,
          <<"models", JArr(<<ModelEntry(JObj({<<"0", JStr("gpt-small")>>}))>>)>>}) }

Member(key, v) == IF v = JUndefined THEN {} ELSE {<<key, v>>}

LegacyEntries ==
  {JObj(Member("node_id", nid) \cup Member("label", lab)) :
     nid \in {JUndefined, JNull, JStr("n1")},
     lab \in {JUndefined, JNull, JStr(""), JStr("alpha")}}
    \cup { JObj({<<"node_id", JStr("n2")>>,
                 <<"health", JStr("healthy")>>,
                 <<"offline", JBool(TRUE)>>,
                 <<"models", JArr(<<ModelEntry(JStr("gpt-small"))>>)>>}) }

NeuronLists ==
  UNION {[1..k -> StructuredEntries \cup LegacyEntries] : k \in 0..MaxNeurons}

EventMessage(e) == JObj({<<"kind", JStr("event")>>, <<"event", e>>})

SnapshotMessages ==
  {JObj({<<"kind", JStr("snapshot")>>,
         <<"snapshot", JObj({<<"neurons", JArr(ns)>>})>>}) : ns \in NeuronLists}
    \cup { JObj({<<"kind", JStr("snapshot")>>}),
           JObj({<<"kind", JStr("snapshot")>>,
                 <<"snapshot", JObj({<<"neurons", JNull>>})>>}) }

ProvisioningMessages ==
  {EventMessage(JObj({<<"type", JStr("provisioning_sent")>>,
                      <<"neuron_id", JStr("n1")>>} \cup Member("cmd", c))) :
     c \in CommandInputs}

OtherMessages ==
  { EventMessage(JObj({<<"type", JStr("neuron_registered")>>,
                       <<"neuron", Descriptor(JStr("n1"), JStr("alpha"))>>})),
    EventMessage(JObj({<<"type", JStr("neuron_removed")>>,
                       <<"neuron_id", JStr("n1")>>})),
    EventMessage(JObj({<<"type", JStr("neuron_removed")>>,
                       <<"neuron_id", JV("number", "7", {}, <<>>)>>})),
    EventMessage(JObj({<<"type", JStr("neuron_heartbeat")>>,
                       <<"neuron_id", JStr("n1")>>})),
    EventMessage(JObj({<<"type", JStr("neuron_heartbeat")>>,
                       <<"neuron_id", JStr("n1")>>,
                       <<"metrics", JObj({<<"cpu", JV("number", "3", {}, <<>>)>>})>>})),
    EventMessage(JObj({<<"type", JStr("provisioning_response")>>,
                       <<"neuron_id", JStr("n1")>>,
                       <<"response", JObj({<<"Ok", JNull>>})>>})),
    EventMessage(JObj({<<"type", JStr("model_state_changed")>>,
                       <<"neuron_id", JStr("n1")>>,
                       <<"models", JArr(<<ModelEntry(JObj({<<"0", JStr("gpt-small")>>})),
                                          ModelEntry(JStr("gpt-small")),
                                          ModelEntry(JObj({<<"name", JStr("gpt-small")>>}))>>)>>})),
    EventMessage(JObj({<<"type", JStr("model_state_changed")>>,
                       <<"neuron_id", JStr("n1")>>})),
    EventMessage(JObj({<<"type", JStr("model_state_changed")>>,
                       <<"neuron_id", JStr("n1")>>,
                       <<"models", JArr(<<JNull>>)>>})),
    EventMessage(JObj({<<"type", JStr("cortex_shutdown_notice")>>,
                       <<"reason", JStr("maintenance")>>})),
    EventMessage(JObj({<<"type", JStr("cortex_shutdown_notice")>>})),
    EventMessage(JObj({<<"type", JStr("custom_type")>>,
                       <<"neuron_id", JStr("n1")>>})),
    JObj({<<"kind", JStr("event")>>}),
    JObj({<<"kind", JStr("other")>>,
          <<"event", JObj({<<"type", JStr("cortex_shutdown_notice")>>})>>}) }

NormInputs == SnapshotMessages \cup ProvisioningMessages \cup OtherMessages

InitNorm ==
  /\ InitDashboard
  /\ norm \in {[NoNorm EXCEPT !.wire = w] : w \in NormInputs}

NormalizeOnce ==
  /\ norm.stage = 0
  /\ norm' = [norm EXCEPT !.stage = 1, !.once = normalizeMessageJson(norm.wire)]
  /\ UNCHANGED dashboardVars

\* The second application; there is none when the first one threw.
NormalizeTwice ==
  /\ norm.stage = 1
  /\ norm.once # Thrown
  /\ norm' = [norm EXCEPT !.stage = 2, !.twice = normalizeMessageJson(norm.once)]
  /\ UNCHANGED dashboardVars

NextNorm == NormalizeOnce \/ NormalizeTwice

SpecNorm == InitNorm /\ [][NextNorm]_vars

\* C25: normalizing a normalized message gives the same value.
NormalizationIdempotent == norm.stage = 2 => norm.twice = norm.once

\* A provisioning_sent event with a legacy command carrying a wrapped model
\* id: the first normalization changed it, the second did not.
NormalizationIdempotentWitness ==
  /\ norm.stage = 2
  /\ Get(Get(norm.wire, "event"), "cmd")
       = JObj({<<"LoadModel", JObj({<<"0", JStr("gpt-small")>>})>>})
  /\ norm.once # norm.wire
  /\ Get(Get(norm.once, "event"), "cmd") = ModelCommand("load_model", JStr("gpt-small"))
  /\ norm.twice = norm.once

\* The command of a provisioning_sent message and its normalization.
SentCommand == Get(Get(norm.wire, "event"), "cmd")
NormalCommand == Get(Get(norm.once, "event"), "cmd")

ProvisioningSentNormalized ==
  /\ norm.stage >= 1
  /\ Get(Get(norm.wire, "event"), "type") = JStr("provisioning_sent")

Keys(v) == {p[1] : p \in v.o}

ModernKinds == {"upsert_model_config", "load_model", "unload_model"}
LegacyKeys == {"UpsertModelConfig", "LoadModel", "UnloadModel"}

IsModernShape(c) ==
  /\ c.t = "object"
  /\ In("kind", c)
  /\ Get(c, "kind").t = "string"
  /\ Get(c, "kind").s \in ModernKinds

IsLegacySingleKey(c) ==
  c.t = "object" /\ Cardinality(Keys(c)) = 1 /\ Keys(c) \subseteq LegacyKeys

HasLegacyKey(c) == c.t = "object" /\ Keys(c) \cap LegacyKeys # {}

\* The legacy key that is read: UpsertModelConfig before LoadModel before
\* UnloadModel.
LegacyKeyRead(c) ==
  IF In("UpsertModelConfig", c) THEN "UpsertModelConfig"
  ELSE IF In("LoadModel", c) THEN "LoadModel"
  ELSE "UnloadModel"

KindOfLegacyKey(k) ==
  IF k = "UpsertModelConfig" THEN "upsert_model_config"
  ELSE IF k = "LoadModel" THEN "load_model"
  ELSE "unload_model"

\* The command a modern or legacy shape denotes: its kind and its payload.
CommandKind(c) ==
  IF IsModernShape(c) THEN Get(c, "kind").s ELSE KindOfLegacyKey(LegacyKeyRead(c))

CommandPayload(c) ==
  IF ~IsModernShape(c) THEN Get(c, LegacyKeyRead(c))
  ELSE IF Get(c, "kind").s = "upsert_model_config" THEN Get(c, "config")
  ELSE Get(c, "model_id")

\* The normalized value of a command of the given kind and payload.
NormalOf(kind, payload) ==
  IF kind = "upsert_model_config" THEN UpsertCommand(payload)
  ELSE ModelCommand(kind, normalizeModelIdJson(payload))

\* {LoadModel: "gpt-small"} and {kind: "load_model", model_id: "gpt-small"}
\* both give {kind: "load_model", model_id: "gpt-small"}.
LoadModelExample ==
  /\ normalizeProvisioningCommand(JObj({<<"LoadModel", JStr("gpt-small")>>}))
       = ModelCommand("load_model", JStr("gpt-small"))
  /\ normalizeProvisioningCommand(ModelCommand("load_model", JStr("gpt-small")))
       = ModelCommand("load_model", JStr("gpt-small"))

\* C26 (as stated): the modern shape and the legacy single-key shape of a
\* command give the same normalized value, which depends only on the kind
\* and the payload of the command; any other shape gives upsert_model_config
\* carrying the raw payload.
CommandShapesAsStated ==
  ProvisioningSentNormalized
    => /\ LoadModelExample
       /\ IF IsModernShape(SentCommand) \/ IsLegacySingleKey(SentCommand)
          THEN NormalCommand
                 = NormalOf(CommandKind(SentCommand), CommandPayload(SentCommand))
          ELSE NormalCommand = UpsertCommand(SentCommand)

\* C26 (amended): an object with a recognized kind is read as the modern
\* shape; otherwise an object carrying a legacy key, alone or next to other
\* members, is read as the legacy command of that key; both readings of a
\* command give the same normalized value.  Only a value with neither a
\* recognized kind nor a legacy key gives upsert_model_config carrying the
\* raw payload.
CommandShapes ==
  ProvisioningSentNormalized
    => /\ LoadModelExample
       /\ IF IsModernShape(SentCommand) \/ HasLegacyKey(SentCommand)
          THEN NormalCommand
                 = NormalOf(CommandKind(SentCommand), CommandPayload(SentCommand))
          ELSE NormalCommand = UpsertCommand(SentCommand)

\* The legacy command {LoadModel: "gpt-small"} was normalized to
\* {kind: "load_model", model_id: "gpt-small"}.
CommandShapesWitness ==
  /\ norm.stage = 1
  /\ Get(Get(norm.wire, "event"), "type") = JStr("provisioning_sent")
  /\ SentCommand = JObj({<<"LoadModel", JStr("gpt-small")>>})
  /\ NormalCommand = JObj({<<"kind", JStr("load_model")>>,
                           <<"model_id", JStr("gpt-small")>>})

IsLegacyEntry(n) == n.t = "object" /\ ~In("descriptor", n)

Present(n, k) == ~Nullish(Get(n, k))

\* C27: the normalized neuron list has the length and order of the input
\* list; every entry without a descriptor becomes a neuron with health
\* "unknown", offline false, null last-heartbeat and no models, labelled by
\* its label if present, else its node_id, else "Neuron #k" for position k.
LegacyEntriesPromoted ==
  (norm.stage >= 1 /\ Get(norm.wire, "kind") = JStr("snapshot")
     /\ norm.once # Thrown)
    => LET ins == NeuronsWire(Get(norm.wire, "snapshot"))
           outs == Get(Get(norm.once, "snapshot"), "neurons")
       IN /\ outs.t = "array"
          /\ Len(outs.a) = Len(ins)
          /\ \A k \in 1..Len(ins) :
               IF IsLegacyEntry(ins[k])
               THEN /\ Get(outs.a[k], "health") = JStr("unknown")
                    /\ Get(outs.a[k], "offline") = JBool(FALSE)
                    /\ Get(outs.a[k], "last_heartbeat_at") = JNull
                    /\ Get(outs.a[k], "models") = JArr(<<>>)
                    /\ Get(Get(outs.a[k], "descriptor"), "node_id")
                         = JCoalesce(Get(ins[k], "node_id"), JNull)
                    /\ Get(Get(outs.a[k], "descriptor"), "label")
                         = IF Present(ins[k], "label") THEN Get(ins[k], "label")
                           ELSE IF Present(ins[k], "node_id")
                           THEN Get(ins[k], "node_id")
                           ELSE JStr(SyntheticLabel[k])
               ELSE Get(outs.a[k], "descriptor") = Get(ins[k], "descriptor")

\* Two legacy entries: the first has a node_id and a null label, the second
\* has neither.
LegacyEntriesPromotedWitness ==
  /\ norm.stage = 1
  /\ Get(norm.wire, "kind") = JStr("snapshot")
  /\ NeuronsWire(Get(norm.wire, "snapshot"))
       = <<JObj({<<"node_id", JStr("n1")>>, <<"label", JNull>>}), JObj({})>>
  /\ Len(Get(Get(norm.once, "snapshot"), "neurons").a) = 2
  /\ Get(Get(Get(Get(norm.once, "snapshot"), "neurons").a[1], "descriptor"), "label")
       = JStr("n1")
  /\ Get(Get(Get(Get(norm.once, "snapshot"), "neurons").a[2], "descriptor"), "label")
       = JStr("Neuron #2")
  /\ Get(Get(Get(norm.once, "snapshot"), "neurons").a[2], "health") = JStr("unknown")

\* ------------------------------------------------- close after a notice
\* C28: the close callback of the current handle, run in state polling after
\* a shutdown notice, leaves the state polling and exactly one 60-second
\* retry timer pending.
CloseAfterNoticeKeepsPolling ==
  [][(phase = "mounted" /\ lastOp'.op = "onclose" /\ lastOp'.h = wsRef
        /\ connectionStatus = "polling" /\ shutdownState.seenShutdownNotice)
       => /\ connectionStatus' = "polling"
          /\ OneRetryTimerPending'
          /\ shutdownState' = shutdownState]_vars

\* The notice was processed and the effect re-ran (which cancelled the timer
\* of the notice); then the connection closed and the close callback armed
\* the retry timer.
CloseAfterNoticeKeepsPollingWitness ==
  /\ phase = "mounted"
  /\ CloseRan
  /\ lastOp.pre = "polling"
  /\ renderedStatus = "polling"
  /\ connectionStatus = "polling"
  /\ shutdownState.seenShutdownNotice
  /\ readyState[wsRef] = "closed"
  /\ OneRetryTimerPending

\* --------------------------------------------- messages after a notice
\* What ws.onmessage would do with the frame of the step had the state been
\* open.
AsInOpen ==
  onmessage([Cur EXCEPT !.connectionStatus = "open"], lastOp'.h, lastOp'.frame)

\* C29: a shutdown notice leaves the stored handle and the transport state of
\* every connection unchanged; a message delivered on the current handle in
\* state polling is logged and applied to the neuron table as it would be in
\* state open.
NoticeKeepsConnectionUsable ==
  [][/\ (phase = "mounted" /\ NoticeStep)
          => /\ wsRef' = wsRef
             /\ readyState' = readyState
             /\ created' = created
     /\ (CurrentMessageStep /\ connectionStatus = "polling")
          => /\ events' = AsInOpen.events
             /\ snapshot' = AsInOpen.snapshot
             /\ lastError' = AsInOpen.lastError
             /\ Logged(lastOp'.frame) => Len(events') = Len(events) + 1
             /\ IsSnapshotFrame(lastOp'.frame)
                  => snapshot'.neurons = normalizeSnapshot(lastOp'.frame.neurons)
             /\ IsEventOfType(lastOp'.frame, {"neuron_heartbeat"})
                  => snapshot' = heartbeatPatch(snapshot, lastOp'.frame.neuron_id)]_vars

\* After a shutdown notice, with the state polling and the connection still
\* open, a snapshot and then a heartbeat arrived: both are in the log and
\* the heartbeat patched the table of the snapshot.
NoticeKeepsConnectionUsableWitness ==
  /\ phase = "mounted"
  /\ connectionStatus = "polling"
  /\ wsRef # NoHandle
  /\ readyState[wsRef] = "open"
  /\ lastOp.op = "onmessage"
  /\ lastOp.pre = "polling"
  /\ lastOp.arg = "neuron_heartbeat"
  /\ Len(events) = 3
  /\ events[1].eventType = "cortex_shutdown_notice"
  /\ events[2].kind = "snapshot"
  /\ events[3].eventType = "neuron_heartbeat"
  /\ snapshot.present
  /\ snapshot.neurons[1].last_heartbeat_at = "now"

\* ------------------------------------------------- no retry while open
\* C30: while a mounted component is in state open, no retry timer is
\* pending.
NoRetryTimerWhileOpen ==
  (phase = "mounted" /\ connectionStatus = "open")
    => (timers = {} /\ pollingTimerRef = NoTimer)

\* The connection opened, the effect re-ran for state open and a message was
\* received: no retry timer is pending.
NoRetryTimerWhileOpenWitness ==
  /\ phase = "mounted"
  /\ connectionStatus = "open"
  /\ renderedStatus = "open"
  /\ lastOp.op = "onmessage"
  /\ lastOp.pre = "open"
  /\ wsRef # NoHandle
  /\ readyState[wsRef] = "open"
  /\ events # <<>>
  /\ timers = {}

\* ------------------------------------------------------ retry timer firing
\* The connection state the timer callback leaves, from connection state st.
AfterTimerFrom(st) ==
  pollTimerCallback([Cur EXCEPT !.connectionStatus = st]).connectionStatus

\* In the current state the callback would move polling, error and closed to
\* connecting and leave open and connecting as they are.
TimerCallbackByStatus ==
  \A st \in Statuses :
    AfterTimerFrom(st) = IF st \in {"polling", "error", "closed"}
                         THEN "connecting" ELSE st

\* C31: the firing of the retry timer moves the connection state to
\* connecting from polling, error and closed and leaves it unchanged from
\* open and connecting; it leaves neuron table, event log and shutdown state
\* untouched.
TimerFiringOnlyMovesToConnecting ==
  [][/\ (phase = "mounted" /\ lastOp'.op = "timer")
          => /\ connectionStatus' =
                  IF connectionStatus \in {"polling", "error", "closed"}
                  THEN "connecting" ELSE connectionStatus
             /\ snapshot' = snapshot
             /\ events' = events
             /\ shutdownState' = shutdownState
             /\ pollingTimerRef' = NoTimer
     /\ phase' = "mounted" => TimerCallbackByStatus']_vars

\* The retry timer armed by a close after a shutdown notice fired in state
\* polling: the state is connecting, table and log are as before.
TimerFiringOnlyMovesToConnectingWitness ==
  /\ phase = "mounted"
  /\ lastOp.op = "timer"
  /\ lastOp.pre = "polling"
  /\ connectionStatus = "connecting"
  /\ renderedStatus = "polling"
  /\ shutdownState.seenShutdownNotice
  /\ events # <<>>
  /\ timers = {}

\* ------------------------------------------------------- pulse counter
HeartbeatStepFor(k) ==
  /\ CurrentMessageStep
  /\ IsEventOfType(StepFrame, {"neuron_heartbeat"})
  /\ String(StepFrame.neuron_id) = k

\* C32 (as stated): every heartbeat for an identity assigns it a counter
\* value greater than every value assigned to it before.
PulseCounterMonotonic ==
  [][\A k \in NodeKeys :
       HeartbeatStepFor(k) => heartbeatAnimIds'[k] > pulseHigh[k]]_vars

\* The ids of the pending expiries of k are distinct, increase in scheduling
\* order and end with the current counter value; a cleared key has none.
PendingIdsBelowCounter ==
  \A k \in NodeKeys :
    /\ \A i, j \in PendingFor(k) : i < j => pulseTimers[i].id < pulseTimers[j].id
    /\ \A i \in PendingFor(k) : pulseTimers[i].id <= heartbeatAnimIds[k]
    /\ heartbeatAnimIds[k] # 0 => \E i \in PendingFor(k) :
                                   pulseTimers[i].id = heartbeatAnimIds[k]

\* C32 (amended): a heartbeat for an identity assigns the value after the
\* current one, which is 1 when the identity is not lit, whatever was
\* assigned before; the values of the pending expiries of an identity are
\* distinct and the newest is the current value.
PulseCounterRestarts ==
  [][/\ \A k \in NodeKeys :
          HeartbeatStepFor(k)
            => /\ heartbeatAnimIds'[k] = heartbeatAnimIds[k] + 1
               /\ ~isNeuronBeating(k) => heartbeatAnimIds'[k] = 1
     /\ phase' = "mounted" => PendingIdsBelowCounter']_vars

\* Two heartbeats for n2, an expiry of each, and a third heartbeat: the
\* counter was 2 and is 1 again.
PulseCounterRestartsWitness ==
  /\ phase = "mounted"
  /\ lastOp.op = "onmessage"
  /\ lastOp.arg = "neuron_heartbeat"
  /\ lastOp.frame.neuron_id = "n2"
  /\ heartbeatAnimIds["n2"] = 1
  /\ pulseHigh["n2"] = 2
  /\ Len(pulseTimers) = 1
  /\ Len(events) = 3

\* --------------------------------------------------- connecting at rest
\* C33: at rest in connecting, the stored handle refers to a connection whose
\* handshake is in progress: it is neither absent nor already closed.
ConnectingHasHandshake ==
  (phase = "mounted" /\ AtRest /\ connectionStatus = "connecting")
    => /\ wsRef # NoHandle
       /\ readyState[wsRef] = "connecting"

\* ------------------------------------------- pulse and table identities
\* The key isNeuronBeating looks a descriptor up under: node_id ?? label.
descriptorNeuronId(descriptor) == Coalesce(descriptor.node_id, descriptor.label)

\* isNeuronBeating of a table row's descriptor; a key the tracker never saw
\* reads as undefined.
isDescriptorBeating(descriptor) ==
  LET neuronId == descriptorNeuronId(descriptor)
  IN /\ neuronId \notin {Null, Undef, ""}
     /\ neuronId \in DOMAIN heartbeatAnimIds
     /\ isNeuronBeating(neuronId)

\* C34: a heartbeat that updates the last-heartbeat of a table neuron
\* (matched by node_id or by label) leaves that neuron reported as pulsing.
HeartbeatLightsMatchedNeuron ==
  [][\A k \in NodeKeys :
       (HeartbeatStepFor(k) /\ snapshot.present)
         => \A i \in 1..Len(snapshot.neurons) :
              Matches(snapshot.neurons[i], k)
                => /\ snapshot'.neurons[i].last_heartbeat_at = "now"
                   /\ isDescriptorBeating(snapshot.neurons[i].descriptor)']_vars

\* ------------------------------------------------ callbacks after teardown
SocketCallbackStep == lastOp'.op \in {"onmessage", "onerror", "onclose"}

\* C35: after teardown no callback of the connection (message, error or
\* close) arms a retry timer or moves the connection state.
NoRetryTimerAfterTeardown ==
  [][(phase = "torn" /\ SocketCallbackStep)
       => /\ timers' \subseteq timers
          /\ pollingTimerRef' = pollingTimerRef
          /\ connectionStatus' = connectionStatus]_vars

TableShape ==
  [present |-> snapshot.present,
   descriptors |-> [i \in 1..Len(snapshot.neurons) |->
                      snapshot.neurons[i].descriptor]]

ErrorCallbackFrame ==
  [][/\ (phase = "mounted" /\ lastOp'.op = "onerror" /\ lastOp'.h = wsRef)
          => /\ connectionStatus' = "error"
             /\ lastError' = WsErrorMsg
             /\ isInitialLoading' = FALSE
             /\ timers' = timers
             /\ pollingTimerRef' = pollingTimerRef
             /\ snapshot' = snapshot
             /\ events' = events
             /\ shutdownState' = shutdownState
             /\ wsRef' = wsRef
             /\ nextEventIdRef' = nextEventIdRef
             /\ heartbeatAnimIds' = heartbeatAnimIds
     /\ (phase = "mounted" /\ connectionStatus = "error"
           /\ connectionStatus' # "error")
          => lastOp'.op = "onclose"]_vars

\* The transport failed on an open connection that had delivered a snapshot:
\* state error, table and log kept, no retry timer, close still to come.
ErrorCallbackFrameWitness ==
  /\ phase = "mounted"
  /\ lastOp.op = "onerror"
  /\ lastOp.pre = "open"
  /\ connectionStatus = "error"
  /\ lastError = WsErrorMsg
  /\ readyState[wsRef] = "failed"
  /\ snapshot.present
  /\ events # <<>>
  /\ timers = {}

\* ------------------------------------------------------------ log ids
\* The open callback, run for the stored handle in the current state, clears
\* the log of a mounted component and keeps the id counter.
OpenKeepsIdCounter ==
  wsRef # NoHandle
    => /\ onopen(Cur, wsRef).nextEventIdRef = nextEventIdRef
       /\ phase = "mounted" => onopen(Cur, wsRef).events = <<>>

\* C39: log-entry ids are never reused: the id counter never decreases and
\* the open callback does not reset it, a new entry takes the counter's value
\* and advances it, and the ids in the log are distinct and below the counter.
LogIdsNeverReused ==
  [][/\ nextEventIdRef' >= nextEventIdRef
     /\ lastOp'.op = "onopen" => nextEventIdRef' = nextEventIdRef
     /\ OpenKeepsIdCounter'
     /\ (lastOp'.op = "onmessage" /\ Len(events') > Len(events))
          => /\ events'[Len(events')].id = nextEventIdRef
             /\ nextEventIdRef' = nextEventIdRef + 1
     /\ \A i \in 1..Len(events') : events'[i].id < nextEventIdRef'
     /\ \A i, j \in 1..Len(events') :
          i < j => events'[i].id < events'[j].id]_vars

\* Three entries were logged after the open callback: ids 1, 2, 3 and the
\* counter at 4.
LogIdsNeverReusedWitness ==
  /\ lastOp.op = "onmessage"
  /\ Len(events) = 3
  /\ events[1].id = 1
  /\ events[3].id = 3
  /\ nextEventIdRef = 4

====
